---------------------------- MODULE Spec2Model ----------------------------
(* Model of Noah's Tab Transposer (src/main.cpp).                          *)
(* A std::string is a sequence of one-character strings; positions are     *)
(* 0-based as in the source, so character i of s is s[i + 1].              *)
EXTENDS Integers, Sequences, FiniteSets, TLC

VARIABLES pc, chords, oldKey, newKey, tab, tabPos, line, chordLn, lnStream,
          word, strInd, chordInd, newChord, newTab, valid, root, interval,
          alt

vars == <<pc, chords, oldKey, newKey, tab, tabPos, line, chordLn, lnStream,
          word, strInd, chordInd, newChord, newTab, valid, root, interval,
          alt>>

(* ------------------------------ bounds -------------------------------- *)
\* longest tab text (newlines included) pasted by the user
MaxTabLen == 6
\* most fragments concatenated into one token handed to the chord grammar
MaxPieces == 4

(* ------------------------- characters, strings ------------------------ *)
\* the characters in use, in increasing ASCII order
AsciiOrder ==
    <<" ", "#", "(", ")", "/", "0", "1", "2", "3", "4", "5", "6", "7", "8",
      "9", "A", "B", "C", "D", "E", "F", "G", "M", "X", "a", "b", "c", "d",
      "e", "f", "g", "i", "j", "m", "n", "o", "r", "s", "u", "x">>

Ord(c) == CHOOSE i \in 1..Len(AsciiOrder) : AsciiOrder[i] = c

UpperLetters == <<"A", "B", "C", "D", "E", "F", "G", "M", "X">>
LowerLetters == <<"a", "b", "c", "d", "e", "f", "g", "m", "x">>

\* ::tolower on one character
tolower(c) ==
    IF \E i \in 1..Len(UpperLetters) : UpperLetters[i] = c
    THEN LowerLetters[CHOOSE i \in 1..Len(UpperLetters) : UpperLetters[i] = c]
    ELSE c

\* ::toupper on one character
toupper(c) ==
    IF \E i \in 1..Len(LowerLetters) : LowerLetters[i] = c
    THEN UpperLetters[CHOOSE i \in 1..Len(LowerLetters) : LowerLetters[i] = c]
    ELSE c

\* isspace, as used by operator>> on a stream
IsSpace(c) == c \in {" ", "\n", "\t", "\r"}

\* string::npos; the source stores it in an int, where it reads as -1
npos == -1

\* the value standing for a thrown std::out_of_range
OutOfRange == <<"out_of_range">>

MinOf(S) == CHOOSE x \in S : \A y \in S : x <= y

\* s.find(sub, from): first position >= from where sub occurs, else npos
Find(s, sub, from) ==
    LET C == {i \in from..(Len(s) - Len(sub)) :
                  SubSeq(s, i + 1, i + Len(sub)) = sub}
    IN IF C = {} THEN npos ELSE MinOf(C)

\* s.find_last_of(c) for a one-character c
FindLast(s, c) ==
    LET C == {i \in 0..(Len(s) - 1) : s[i + 1] = c}
    IN IF C = {} THEN npos ELSE CHOOSE x \in C : \A y \in C : y <= x

\* s.substr(pos, n): throws when pos > size, clamps n to the end
SubstrN(s, pos, n) ==
    IF pos > Len(s) THEN OutOfRange
    ELSE SubSeq(s, pos + 1, IF pos + n > Len(s) THEN Len(s) ELSE pos + n)

\* s.substr(pos)
Substr(s, pos) == SubstrN(s, pos, Len(s))

\* s.replace(pos, n, t), for pos <= size
Replace(s, pos, n, t) ==
    SubSeq(s, 1, pos) \o t
        \o SubSeq(s, (IF pos + n > Len(s) THEN Len(s) ELSE pos + n) + 1, Len(s))

\* transform(s.begin(), s.end(), s.begin(), ::tolower)
ToLowerStr(s) == [i \in 1..Len(s) |-> tolower(s[i])]

\* transform(s.begin(), ++s.begin(), s.begin(), ::toupper)
Capitalize(s) == [i \in 1..Len(s) |-> IF i = 1 THEN toupper(s[i]) ELSE s[i]]

\* lexicographic operator< of std::string
RECURSIVE StrLess(_, _)
StrLess(a, b) ==
    IF b = <<>> THEN FALSE
    ELSE IF a = <<>> THEN TRUE
    ELSE IF Ord(Head(a)) < Ord(Head(b)) THEN TRUE
    ELSE IF Ord(Head(a)) > Ord(Head(b)) THEN FALSE
    ELSE StrLess(Tail(a), Tail(b))

(* ------------------------------ streams ------------------------------- *)
\* A stringstream is its buffer and its read position.

\* first position >= p holding a non-space character, or the size
RECURSIVE SkipWs(_, _)
SkipWs(s, p) ==
    IF p >= Len(s) THEN Len(s)
    ELSE IF IsSpace(s[p + 1]) THEN SkipWs(s, p + 1) ELSE p

\* first position >= p holding a space character, or the size
RECURSIVE TokenEnd(_, _)
TokenEnd(s, p) ==
    IF p >= Len(s) THEN Len(s)
    ELSE IF IsSpace(s[p + 1]) THEN p ELSE TokenEnd(s, p + 1)

\* stream >> w: skips white space and reads one token; when nothing is
\* left the extraction fails and w keeps the value it had
ExtractWord(st, w) ==
    LET b == SkipWs(st.buf, st.pos)
    IN IF b >= Len(st.buf)
       THEN [ok |-> FALSE, word |-> w,
             stream |-> [buf |-> st.buf, pos |-> Len(st.buf)]]
       ELSE [ok |-> TRUE,
             word |-> SubSeq(st.buf, b + 1, TokenEnd(st.buf, b)),
             stream |-> [buf |-> st.buf, pos |-> TokenEnd(st.buf, b)]]

\* position of the first "\n" at or after p, or the size
RECURSIVE LineEnd(_, _)
LineEnd(s, p) ==
    IF p >= Len(s) THEN Len(s)
    ELSE IF s[p + 1] = "\n" THEN p ELSE LineEnd(s, p + 1)

\* getline(stream, line): fails at end of input, else reads up to and
\* consumes the next newline
GetLineFrom(s, p) ==
    IF p >= Len(s) THEN [ok |-> FALSE, line |-> <<>>, pos |-> p]
    ELSE [ok |-> TRUE, line |-> SubSeq(s, p + 1, LineEnd(s, p)),
          pos |-> IF LineEnd(s, p) < Len(s) THEN LineEnd(s, p) + 1
                  ELSE Len(s)]

(* --------------------------- note catalog ----------------------------- *)
notes ==
    <<<<"a","b">>, <<"a">>, <<"b","b">>, <<"b">>, <<"c">>, <<"d","b">>,
      <<"d">>, <<"e","b">>, <<"e">>, <<"f">>, <<"f","#">>, <<"g">>>>

altNotes ==
    <<<<"g","#">>, <<"a">>, <<"a","#">>, <<"b">>, <<"b","#">>, <<"c","#">>,
      <<"d">>, <<"d","#">>, <<"e">>, <<"e","#">>, <<"g","b">>, <<"g">>>>

\* the chord-quality vector as the source initialises it
chordsInit == <<
    <<"#","5","#","9">>, <<"#","5","b","9">>, <<"1","1">>, <<"1","3">>,
    <<"1","3","#","1","1">>, <<"1","3","s","u","s">>,
    <<"1","3","s","u","s","2">>, <<"1","3","s","u","s","4">>, <<"2">>,
    <<"5">>, <<"6">>, <<"6","/","9">>, <<"7">>, <<"7","#","1","1">>,
    <<"7","#","5">>, <<"7","#","9">>, <<"7","b","5">>,
    <<"7","b","5","#","9">>, <<"7","b","5","(","#","9",")">>,
    <<"7","b","9">>, <<"7","s","u","s">>, <<"7","s","u","s","2">>,
    <<"7","s","u","s","4">>, <<"9">>, <<"9","s","u","s">>,
    <<"9","s","u","s","2">>, <<"9","s","u","s","4">>, <<"m">>,
    <<"a","d","d","9">>, <<"a","u","g">>, <<"a","u","g","7","#","9">>,
    <<"a","u","g","9">>, <<"b","5">>, <<"b","5","#","9">>,
    <<"b","5","b","9">>, <<"d","i","m">>, <<"d","i","m","7">>, <<"m">>,
    <<"m","(","a","d","d","9",")">>, <<"m","(","m","a","j","7",")">>,
    <<"m","1","1">>, <<"m","1","3">>, <<"m","6">>, <<"m","6","/","9">>,
    <<"m","7">>, <<"m","7","b","5">>, <<"m","7","b","9">>, <<"m","9">>,
    <<"m","9","(","m","a","j","7",")">>, <<"m","9","m","7">>,
    <<"m","9","b","5">>, <<"m","9","m","a","j","7">>, <<"m","m","7">>,
    <<"m","a","d","d","9">>, <<"m","a","j">>, <<"m","a","j","1","3">>,
    <<"m","a","j","7">>, <<"m","a","j","7","#","1","1">>,
    <<"m","a","j","9">>, <<"m","a","j","o","r">>, <<"m","b","6">>,
    <<"m","i","n">>, <<"m","i","n","o","r">>, <<"m","m","a","j","7">>,
    <<"s","u","s">>, <<"s","u","s","2">>, <<"s","u","s","4">>
    >>

\* std::sort(v.begin(), v.end()): every element goes to the position given
\* by the number of elements ordered before it
SortStrings(v) ==
    LET before(i) == {j \in 1..Len(v) :
                         StrLess(v[j], v[i]) \/ (v[j] = v[i] /\ j < i)}
        ranked == {<<Cardinality(before(i)) + 1, i>> : i \in 1..Len(v)}
        at == [k \in 1..Len(v) |-> v[(CHOOSE p \in ranked : p[1] = k)[2]]]
    IN SubSeq(at, 1, Len(v))

SortedChords == SortStrings(chordsInit)

\* std::lower_bound over positions first .. first + len - 1 (0-based)
RECURSIVE LowerBound(_, _, _, _)
LowerBound(v, x, first, len) ==
    IF len <= 0 THEN first
    ELSE LET half == len \div 2
             mid == first + half
         IN IF StrLess(v[mid + 1], x)
            THEN LowerBound(v, x, mid + 1, len - half - 1)
            ELSE LowerBound(v, x, first, half)

\* std::binary_search(v.begin(), v.end(), x)
BinarySearch(v, x) ==
    LET i == LowerBound(v, x, 0, Len(v))
    IN i < Len(v) /\ ~StrLess(x, v[i + 1])

isAltNote(note) ==
    note \in {<<"g","#">>, <<"a","#">>, <<"c","#">>, <<"d","#">>,
              <<"g","b">>}

\* the first white-space delimited token of input, lower-cased
formatNote(input) ==
    ToLowerStr(ExtractWord([buf |-> input, pos |-> 0], <<>>).word)

validNote(note) ==
    LET extractedNote == formatNote(note)
    IN \/ \E i \in 1..Len(notes) : notes[i] = extractedNote
       \/ \E i \in 1..Len(altNotes) : altNotes[i] = extractedNote

getNoteIndex(chromatic, note) ==
    LET n == formatNote(note)
        H == {i \in 0..(Len(chromatic) - 1) : chromatic[i + 1] = n}
    IN IF H = {} THEN 0 ELSE MinOf(H)

\* Key(): the default constructor
EmptyKey == [keyName |-> <<>>, id |-> 0, alt |-> FALSE]

\* Key(keyName)
Key(keyName) ==
    IF isAltNote(keyName)
    THEN [keyName |-> keyName, id |-> getNoteIndex(altNotes, keyName),
          alt |-> TRUE]
    ELSE [keyName |-> keyName, id |-> getNoteIndex(notes, keyName),
          alt |-> FALSE]

getInterval(old, new) ==
    IF new.id - old.id < 0 THEN 12 + (new.id - old.id) ELSE new.id - old.id

(* --------------------------- chord grammar ---------------------------- *)
shFl5 ==
    <<<<"b","5","#","9">>, <<"b","5","b","9">>, <<"#","5","b","9">>,
      <<"#","5","#","9">>>>

\* found: whether word holds one of the shFl5 names; flat5Ind: where the
\* first name of the list that occurs in word first occurs
isFlatSharpFive(w) ==
    LET hits == {i \in 1..Len(shFl5) : Find(w, shFl5[i], 0) # npos}
    IN IF hits = {} THEN [found |-> FALSE, flat5Ind |-> -1]
       ELSE [found |-> TRUE, flat5Ind |-> Find(w, shFl5[MinOf(hits)], 0)]

\* getRoot reading the accidental with word.at(1), which throws on a word
\* shorter than two characters
getRootAt(w) ==
    LET f == isFlatSharpFive(w)
    IN IF f.found /\ f.flat5Ind = 2 THEN SubstrN(w, 0, 2)
       ELSE IF ~f.found /\ Len(w) < 2 THEN OutOfRange
       ELSE IF ~f.found /\ w[2] \in {"b", "#"} THEN SubstrN(w, 0, 2)
       ELSE SubstrN(w, 0, 1)

getRoot(w) ==
    LET f == isFlatSharpFive(w)
    IN IF f.found /\ f.flat5Ind = 2 THEN SubstrN(w, 0, 2)
       ELSE IF ~f.found /\ (Find(w, <<"b">>, 0) = 1 \/ Find(w, <<"#">>, 0) = 1)
            THEN SubstrN(w, 0, 2)
       ELSE SubstrN(w, 0, 1)

validChordQuality(qual) == BinarySearch(chords, formatNote(qual))

\* validSlashChordR and validChordR give "true", "false", or "out_of_range"
\* when a substr call on the way throws
RECURSIVE validChordR(_)
validSlashChordR(w) ==
    IF Find(w, <<"/">>, 0) = npos THEN "false"
    ELSE IF Find(w, <<"/">>, 0) # FindLast(w, "/") THEN "false"
    ELSE LET slashInd == Find(w, <<"/">>, 0)
         IN IF slashInd = Len(w) - 1 THEN "false"
            ELSE LET preSl == SubstrN(w, 0, slashInd)
                     postSl == Substr(w, slashInd + 1)
                 IN IF preSl = OutOfRange \/ postSl = OutOfRange
                    THEN "out_of_range"
                    ELSE LET pre == validChordR(preSl)
                         IN IF pre = "out_of_range" THEN pre
                            ELSE IF pre = "true" /\ validNote(postSl)
                                 THEN "true"
                            ELSE "false"

validChordR(w) ==
    IF Len(w) = 1 THEN (IF validNote(w) THEN "true" ELSE "false")
    ELSE LET sl == validSlashChordR(w)
         IN IF sl # "false" THEN sl
            ELSE LET r == getRoot(w)
                 IN IF r = OutOfRange THEN "out_of_range"
                    ELSE IF ~validNote(r) THEN "false"
                    ELSE IF r = w THEN "true"
                    ELSE LET qual == Substr(w, Len(r))
                         IN IF qual = OutOfRange THEN "out_of_range"
                            ELSE IF validChordQuality(qual) THEN "true"
                            ELSE "false"

validSlashChord(w) == validSlashChordR(w) = "true"

validChord(w) == validChordR(w) = "true"

(* ------------------------ transposition engine ------------------------ *)
transposeNote(old, iv, a) ==
    IF isAltNote(old)
    THEN IF a THEN altNotes[((getNoteIndex(altNotes, old) + iv) % 12) + 1]
         ELSE notes[((getNoteIndex(altNotes, old) + iv) % 12) + 1]
    ELSE IF a THEN altNotes[((getNoteIndex(notes, old) + iv) % 12) + 1]
         ELSE notes[((getNoteIndex(notes, old) + iv) % 12) + 1]

transposeChord(chord, old, new) ==
    LET r == getRoot(chord)
        iv == getInterval(old, new)
        a == isAltNote(new.keyName)
        tranRoot == Capitalize(transposeNote(r, iv, a))
    IN IF validSlashChord(chord)
       THEN LET slashInd == Find(chord, <<"/">>, 0)
                preSlQuality == SubstrN(chord, Len(r), slashInd)
                post == Substr(chord, slashInd + 1)
                newPostSl == Capitalize(transposeNote(post, iv, a))
            IN tranRoot \o preSlQuality \o newPostSl
       ELSE tranRoot \o Substr(chord, Len(r))

(* ---------------------------- tab transposer -------------------------- *)
isChordLine(ln) ==
    LET first == ExtractWord([buf |-> ln, pos |-> 0], <<>>)
        second == ExtractWord(first.stream, first.word)
    IN validChord(first.word) /\ validChord(second.word)

\* the cursor after a replacement
AdvanceCursor(cursor, w, nc) == cursor + Len(nc)

\* the replacement taking the length of the new chord for the length of
\* the range it replaces
ReplaceChordNewLen(ln, ind, w, nc) == Replace(ln, ind, Len(nc), nc)

\* the line after the chord found at ind is replaced
ReplaceChord(ln, ind, w, nc) == Replace(ln, ind, Len(w), nc)

\* the newline put between the lines instead of after each
AppendLineBetween(out, ln) ==
    IF out = <<>> THEN ln ELSE out \o <<"\n">> \o ln

\* newTab += line + "\n"
AppendLine(out, ln) == out \o ln \o <<"\n">>

(* ------------------------------- inputs ------------------------------- *)
\* answers typed at the two key prompts
KeyInputs == {<<"A">>, <<"G","#">>, <<"x">>}

\* characters of the pasted tab lines
LineAlphabet == {" ", "A", "D", "b"}

RECURSIVE StrsOfLen(_)
StrsOfLen(n) ==
    IF n = 0 THEN {<<>>}
    ELSE {Append(s, c) : s \in StrsOfLen(n - 1), c \in LineAlphabet}

EndSentinel == <<"e", "n", "d">>

\* fragments the tokens handed to the grammar are built from
Pieces ==
    {<<"G">>, <<"B">>, <<"b">>, <<"#">>, <<"/">>, <<"m">>, <<"7">>,
     <<"b","5","#","9">>}

RECURSIVE Concats(_)
Concats(n) ==
    IF n = 0 THEN {<<>>}
    ELSE Concats(n - 1) \cup {p \o q : p \in Concats(n - 1), q \in Pieces}

NoteNames ==
    {notes[i] : i \in 1..Len(notes)} \cup {altNotes[i] : i \in 1..Len(altNotes)}

Tokens == Concats(MaxPieces) \cup NoteNames

(* ------------------------- the program: Spec -------------------------- *)
Init ==
    /\ pc = "main"
    /\ chords = chordsInit
    /\ oldKey = EmptyKey
    /\ newKey = EmptyKey
    /\ tab = <<>>
    /\ tabPos = 0
    /\ line = <<>>
    /\ chordLn = FALSE
    /\ lnStream = [buf |-> <<>>, pos |-> 0]
    /\ word = <<>>
    /\ strInd = 0
    /\ chordInd = 0
    /\ newChord = <<>>
    /\ newTab = <<>>
    /\ valid = "false"
    /\ root = <<>>
    /\ interval = 0
    /\ alt = FALSE

\* main: std::sort(chords.begin(), chords.end())
MainSort ==
    /\ pc = "main"
    /\ chords' = SortStrings(chords)
    /\ pc' = "oldKey"
    /\ UNCHANGED <<oldKey, newKey, tab, tabPos, line, chordLn, lnStream,
                   word, strInd, chordInd, newChord, newTab, valid, root,
                   interval, alt>>

\* userIOKeys: one pass of the first prompt loop
ReadOldKey ==
    /\ pc = "oldKey"
    /\ \E response \in KeyInputs :
          IF validNote(formatNote(response))
          THEN oldKey' = Key(formatNote(response)) /\ pc' = "newKey"
          ELSE UNCHANGED <<oldKey, pc>>
    /\ UNCHANGED <<chords, newKey, tab, tabPos, line, chordLn, lnStream,
                   word, strInd, chordInd, newChord, newTab, valid, root,
                   interval, alt>>

\* userIOKeys: one pass of the second prompt loop
ReadNewKey ==
    /\ pc = "newKey"
    /\ \E response \in KeyInputs :
          IF validNote(formatNote(response))
          THEN newKey' = Key(formatNote(response)) /\ pc' = "readTab"
          ELSE UNCHANGED <<newKey, pc>>
    /\ UNCHANGED <<chords, oldKey, tab, tabPos, line, chordLn, lnStream,
                   word, strInd, chordInd, newChord, newTab, valid, root,
                   interval, alt>>

\* userIOTab: one pass of the reading loop
ReadTabLine ==
    /\ pc = "readTab"
    /\ \E response \in {EndSentinel} \cup
                       UNION {StrsOfLen(n) : n \in 0..(MaxTabLen - Len(tab) - 1)} :
          IF response = EndSentinel
          THEN pc' = "getline" /\ UNCHANGED tab
          ELSE tab' = tab \o response \o <<"\n">> /\ UNCHANGED pc
    /\ UNCHANGED <<chords, oldKey, newKey, tabPos, line, chordLn, lnStream,
                   word, strInd, chordInd, newChord, newTab, valid, root,
                   interval, alt>>

\* transposeTab: getline succeeds; the line is classified
GetLine ==
    /\ pc = "getline"
    /\ GetLineFrom(tab, tabPos).ok
    /\ line' = GetLineFrom(tab, tabPos).line
    /\ tabPos' = GetLineFrom(tab, tabPos).pos
    /\ strInd' = 0
    /\ chordLn' = isChordLine(line')
    /\ IF chordLn'
       THEN lnStream' = [buf |-> line', pos |-> 0] /\ pc' = "words"
       ELSE UNCHANGED lnStream /\ pc' = "append"
    /\ UNCHANGED <<chords, oldKey, newKey, tab, word, chordInd, newChord,
                   newTab, valid, root, interval, alt>>

\* transposeTab: lnStream >> word succeeds; a valid chord is replaced
NextWord ==
    /\ pc = "words"
    /\ ExtractWord(lnStream, word).ok
    /\ word' = ExtractWord(lnStream, word).word
    /\ lnStream' = ExtractWord(lnStream, word).stream
    /\ IF validChord(word')
       THEN /\ chordInd' = Find(line, word', strInd)
            /\ newChord' = transposeChord(word', oldKey, newKey)
            /\ IF chordInd' = npos
               THEN \* line.replace throws std::out_of_range
                    pc' = "crashed" /\ UNCHANGED <<line, strInd>>
               ELSE /\ line' = ReplaceChord(line, chordInd', word', newChord')
                    /\ strInd' = AdvanceCursor(strInd, word', newChord')
                    /\ UNCHANGED pc
       ELSE UNCHANGED <<chordInd, newChord, line, strInd, pc>>
    /\ UNCHANGED <<chords, oldKey, newKey, tab, tabPos, chordLn, newTab,
                   valid, root, interval, alt>>

\* transposeTab: lnStream >> word fails; the word loop ends
WordsDone ==
    /\ pc = "words"
    /\ ~ExtractWord(lnStream, word).ok
    /\ lnStream' = ExtractWord(lnStream, word).stream
    /\ pc' = "append"
    /\ UNCHANGED <<chords, oldKey, newKey, tab, tabPos, line, chordLn, word,
                   strInd, chordInd, newChord, newTab, valid, root,
                   interval, alt>>

\* transposeTab: newTab += line + "\n"
EmitLine ==
    /\ pc = "append"
    /\ newTab' = AppendLine(newTab, line)
    /\ pc' = "getline"
    /\ UNCHANGED <<chords, oldKey, newKey, tab, tabPos, line, chordLn,
                   lnStream, word, strInd, chordInd, newChord, valid, root,
                   interval, alt>>

\* transposeTab: getline fails; newTab is returned and printed
TabDone ==
    /\ pc = "getline"
    /\ ~GetLineFrom(tab, tabPos).ok
    /\ pc' = "done"
    /\ UNCHANGED <<chords, oldKey, newKey, tab, tabPos, line, chordLn,
                   lnStream, word, strInd, chordInd, newChord, newTab, valid,
                   root, interval, alt>>

Next ==
    \/ MainSort
    \/ ReadOldKey
    \/ ReadNewKey
    \/ ReadTabLine
    \/ GetLine
    \/ NextWord
    \/ WordsDone
    \/ EmitLine
    \/ TabDone

Spec == Init /\ [][Next]_vars

(* ---------------- the grammar and the engine: SpecChord --------------- *)
\* Each function is applied to a token drawn from Tokens, with the
\* vocabulary as main leaves it before any of them is called.

\* tonic names that pass the prompt loop of userIOKeys
KeyNames == NoteNames

InitChord ==
    /\ pc = "token"
    /\ chords = SortedChords
    /\ word \in Tokens
    /\ oldKey = EmptyKey
    /\ newKey = EmptyKey
    /\ tab = <<>>
    /\ tabPos = 0
    /\ line = <<>>
    /\ chordLn = FALSE
    /\ lnStream = [buf |-> <<>>, pos |-> 0]
    /\ strInd = 0
    /\ chordInd = 0
    /\ newChord = <<>>
    /\ newTab = <<>>
    /\ valid = "false"
    /\ root = <<>>
    /\ interval = 0
    /\ alt = FALSE

CallValidChord ==
    /\ pc = "token"
    /\ valid' = validChordR(word)
    /\ pc' = "validChord"
    /\ UNCHANGED <<chords, oldKey, newKey, tab, tabPos, line, chordLn,
                   lnStream, word, strInd, chordInd, newChord, newTab, root,
                   interval, alt>>

CallGetRoot ==
    /\ pc = "token"
    /\ root' = getRoot(word)
    /\ pc' = "getRoot"
    /\ UNCHANGED <<chords, oldKey, newKey, tab, tabPos, line, chordLn,
                   lnStream, word, strInd, chordInd, newChord, newTab, valid,
                   interval, alt>>

\* transposeNote is handed a valid note
CallTransposeNote ==
    /\ pc = "token"
    /\ validNote(word)
    /\ \E iv \in 0..11, a \in BOOLEAN :
          /\ interval' = iv
          /\ alt' = a
          /\ newChord' = transposeNote(word, iv, a)
    /\ pc' = "transposeNote"
    /\ UNCHANGED <<chords, oldKey, newKey, tab, tabPos, line, chordLn,
                   lnStream, word, strInd, chordInd, newTab, valid, root>>

\* transposeChord is handed a valid chord
CallTransposeChord ==
    /\ pc = "token"
    /\ validChord(word)
    /\ \E old \in KeyNames, new \in KeyNames :
          /\ oldKey' = Key(old)
          /\ newKey' = Key(new)
          /\ newChord' = transposeChord(word, Key(old), Key(new))
    /\ pc' = "transposeChord"
    /\ UNCHANGED <<chords, tab, tabPos, line, chordLn, lnStream, word,
                   strInd, chordInd, newTab, valid, root, interval, alt>>

NextChord ==
    \/ CallValidChord
    \/ CallGetRoot
    \/ CallTransposeNote
    \/ CallTransposeChord

SpecChord == InitChord /\ [][NextChord]_vars

(* ------------------- text measured from the outside ------------------- *)
\* positions (1-based) of the newlines of a text
NewlinePos(s) == {i \in 1..Len(s) : s[i] = "\n"}

KthOf(S, k) == CHOOSE x \in S : Cardinality({y \in S : y < x}) = k - 1

\* the k-th newline-terminated line of a text
LineOf(s, k) ==
    SubSeq(s, (IF k = 1 THEN 0 ELSE KthOf(NewlinePos(s), k - 1)) + 1,
           KthOf(NewlinePos(s), k) - 1)

\* positions (0-based) where a white-space delimited token of s starts
TokenStarts(s) ==
    {i \in 0..(Len(s) - 1) :
        ~IsSpace(s[i + 1]) /\ (i = 0 \/ IsSpace(s[i]))}

\* the token of s that starts at position i
TokenAt(s, i) ==
    SubSeq(s, i + 1,
           MinOf({j \in i..Len(s) : j = Len(s) \/ IsSpace(s[j + 1])}))

\* the k-th token of s
KthToken(s, k) == TokenAt(s, KthOf(TokenStarts(s), k))

\* s with every token that is a valid chord transposed where it stands
RECURSIVE TransposedInPlace(_)
TransposedInPlace(s) ==
    IF s = <<>> THEN <<>>
    ELSE IF IsSpace(Head(s)) THEN <<Head(s)>> \o TransposedInPlace(Tail(s))
    ELSE LET t == TokenAt(s, 0)
         IN (IF validChord(t) THEN transposeChord(t, oldKey, newKey) ELSE t)
                \o TransposedInPlace(SubSeq(s, Len(t) + 1, Len(s)))

\* the first two tokens of a line exist and are valid chords
TwoValidChords(s) ==
    /\ Cardinality(TokenStarts(s)) >= 2
    /\ validChord(KthToken(s, 1))
    /\ validChord(KthToken(s, 2))

\* position of the lower-cased note in the note table that holds it
IdxOf(r) ==
    LET n == ToLowerStr(r)
    IN IF \E i \in 1..Len(notes) : notes[i] = n
       THEN (CHOOSE i \in 1..Len(notes) : notes[i] = n) - 1
       ELSE (CHOOSE i \in 1..Len(altNotes) : altNotes[i] = n) - 1

\* the table the destination key spells its notes from
DestTable(k) == IF k.alt THEN altNotes ELSE notes

\* a note moved by the key interval into the destination spelling
Moved(n) ==
    Capitalize(DestTable(newKey)[((IdxOf(n) + getInterval(oldKey, newKey)) % 12) + 1])

\* one of the four altered-fifth-and-ninth names stands at position i of w
SuffixAt(w, i) ==
    /\ Len(w) >= i + 4
    /\ \E k \in 1..Len(shFl5) : SubSeq(w, i + 1, i + 4) = shFl5[k]

FirstChars(w, n) == SubSeq(w, 1, IF Len(w) < n THEN Len(w) ELSE n)

\* the root by the stated priority order
RootByPriority(w) ==
    IF SuffixAt(w, 2) THEN FirstChars(w, 2)
    ELSE IF SuffixAt(w, 1) THEN FirstChars(w, 1)
    ELSE IF Len(w) >= 2 /\ w[2] \in {"b", "#"} THEN FirstChars(w, 2)
    ELSE FirstChars(w, 1)

(* ------------------------------- claims ------------------------------- *)

\* C1: every chord line comes out as the input line with each valid chord
\* token replaced once, at its own position, by its transposition, and
\* everything else unchanged.
C1_InPlace ==
    pc = "done" =>
        \A k \in 1..Cardinality(NewlinePos(tab)) :
            isChordLine(LineOf(tab, k)) =>
                LineOf(newTab, k) = TransposedInPlace(LineOf(tab, k))

\* C2: a line is classified as a chord line exactly when it has at least
\* two tokens and the first two are valid chords, and every line with
\* fewer than two tokens is emitted unmodified.
C2_TwoTokens ==
    /\ (pc = "words" /\ lnStream.pos = 0) => TwoValidChords(line)
    /\ (pc = "append" /\ ~chordLn) => ~TwoValidChords(line)
    /\ pc = "done" =>
          \A k \in 1..Cardinality(NewlinePos(tab)) :
              Cardinality(TokenStarts(LineOf(tab, k))) < 2 =>
                  LineOf(newTab, k) = LineOf(tab, k)

\* C3: the result of transposeChord starts with the capitalised entry of
\* the destination key's table at index (idx(root) + interval) mod 12,
\* whatever the letter case and the table of the root.
C3_RootMoved ==
    pc = "transposeChord" =>
        /\ Len(newChord) >= Len(Moved(getRoot(word)))
        /\ SubSeq(newChord, 1, Len(Moved(getRoot(word)))) = Moved(getRoot(word))

\* C4: a valid slash chord root + quality + "/" + bass comes out as
\* T(root) + quality + "/" + T(bass), with nothing else in the result.
C4_SlashChord ==
    (pc = "transposeChord" /\ validSlashChord(word)) =>
        LET r == getRoot(word)
            s == Find(word, <<"/">>, 0)
            a == isAltNote(newKey.keyName)
            iv == getInterval(oldKey, newKey)
        IN newChord =
              Capitalize(transposeNote(r, iv, a))
                  \o SubSeq(word, Len(r) + 1, s) \o <<"/">>
                  \o Capitalize(transposeNote(SubSeq(word, s + 2, Len(word)), iv, a))

\* C5: validChord accepts a token exactly when it is a valid note name, or
\* a valid slash chord, or its root is a valid note and the rest is empty
\* or a chord quality.
C5_ValidChordIff ==
    pc = "validChord" =>
        ((valid = "true") <=>
            \/ validNote(word)
            \/ validSlashChord(word)
            \/ /\ validNote(getRoot(word))
               /\ \/ getRoot(word) = word
                  \/ validChordQuality(SubSeq(word, Len(getRoot(word)) + 1, Len(word))))

\* C7: transposing an entry of either note table by the interval 0 into
\* the table it belongs to gives that entry back.
C7_ZeroInterval ==
    (/\ pc = "transposeNote"
     /\ interval = 0
     /\ \/ alt /\ \E i \in 1..Len(altNotes) : altNotes[i] = word
        \/ ~alt /\ \E i \in 1..Len(notes) : notes[i] = word)
        => newChord = word

\* C8: validChord returns true or false for every string, with no substr
\* call out of range, and leaves the quality vocabulary as main sorted it.
C8_Total ==
    pc = "validChord" =>
        /\ valid \in {"true", "false"}
        /\ chords = SortedChords

C8_Witness ==
    /\ pc = "validChord"
    /\ Len(word) >= 2
    /\ word[1] = "/"
    /\ word[Len(word)] = "/"

\* C9: getRoot returns the root the priority order (a), (b), (c) gives.
C9_RootPriority == pc = "getRoot" => root = RootByPriority(word)

\* C6: the output has as many newline-terminated lines as the input, in
\* the same order, and every line not classified as a chord line is
\* byte-identical to the input line.
C6_Lines ==
    pc = "done" =>
        /\ Cardinality(NewlinePos(newTab)) = Cardinality(NewlinePos(tab))
        /\ newTab # <<>> => newTab[Len(newTab)] = "\n"
        /\ \A k \in 1..Cardinality(NewlinePos(tab)) :
              /\ Cardinality(TokenStarts(LineOf(newTab, k)))
                    = Cardinality(TokenStarts(LineOf(tab, k)))
              /\ ~isChordLine(LineOf(tab, k)) =>
                    LineOf(newTab, k) = LineOf(tab, k)

C6_Witness ==
    /\ pc = "done"
    /\ Cardinality(NewlinePos(tab)) >= 2
    /\ isChordLine(LineOf(tab, 1))
    /\ ~isChordLine(LineOf(tab, 2))
    /\ LineOf(tab, 2) # <<>>
    /\ LineOf(newTab, 1) # LineOf(tab, 1)

\* C10: at every replacement step the search finds the word, the cursor
\* does not exceed the position of the token being processed, the replaced
\* range lies in the line and holds no white space, and the tokens after
\* the one being processed are left as they were.
C10_Replacement ==
    [][(pc = "words" /\ ExtractWord(lnStream, word).ok
            /\ validChord(ExtractWord(lnStream, word).word))
        => LET w == ExtractWord(lnStream, word).word
               k == Cardinality({i \in TokenStarts(lnStream.buf) :
                                    i < ExtractWord(lnStream, word).stream.pos})
           IN /\ chordInd' # npos
              /\ pc' = "words"
              /\ Cardinality(TokenStarts(line)) = Cardinality(TokenStarts(lnStream.buf))
              /\ strInd <= KthOf(TokenStarts(line), k)
              /\ strInd <= chordInd'
              /\ chordInd' <= KthOf(TokenStarts(line), k)
              /\ chordInd' + Len(w) <= Len(line)
              /\ \A i \in (chordInd' + 1)..(chordInd' + Len(w)) : ~IsSpace(line[i])
              /\ Cardinality(TokenStarts(line')) = Cardinality(TokenStarts(line))
              /\ \A j \in (k + 1)..Cardinality(TokenStarts(line)) :
                    KthToken(line', j) = KthToken(line, j)]_vars

C10_Witness ==
    /\ pc = "words"
    /\ validChord(word)
    /\ strInd > Len(newChord)
    /\ chordInd > 0
    /\ chordInd < lnStream.pos - Len(word)

====
